---- MODULE Spec2Model ----
(***************************************************************************)
(* The chat client of agentUI as a state machine.                          *)
(*                                                                         *)
(* Two variants of the component App exist in the repository:              *)
(*   src/unnamed/part_000      (turn-boundary marker, waiting indicator)   *)
(*   src/frontend/src/App.jsx  (no marker, no waiting indicator)           *)
(* Both keep the same state hooks input, media, isThinking, error, ws and  *)
(* react to the same frames, so they are run in lock-step on the same      *)
(* stimuli: messages is the transcript of part_000, messagesApp the one of *)
(* frontend/src/App.jsx.                                                   *)
(*                                                                         *)
(* Text is a sequence of characters, so that concatenation, trim() and     *)
(* split(',') are computed.  setMessages(updater) only queues the updater: *)
(* React applies the queued updaters, in order and each once, when it next *)
(* renders the component (Render), which may be right after the handler or *)
(* after further handlers have run.  The ref pendingNewTurn is written by  *)
(* the handler at once and read by the text_delta updater when that        *)
(* updater runs.  The other hooks are set to plain values, which no        *)
(* handler reads back before the next render: they are set at once.        *)
(* activeTools of frontend/src/App.jsx is written and never read: left out.*)
(* setMedia(prev => [...prev, entry]) of reader.onload is an updater too   *)
(* and is queued like those of setMessages; a handler of the user (click,  *)
(* key, change) is rendered before the next one runs, so sendMessage's     *)
(* setMedia([]) takes effect at once and the appends queued before it,     *)
(* which React applies ahead of it, are overwritten by it.                 *)
(*                                                                         *)
(* refMessages and refMarker are history variables: the transcript and the *)
(* marker of part_000's reducer applied to every update the moment it is   *)
(* queued, that is, frame by frame in arrival order.  loaded and ignored   *)
(* are history variables as well.                                          *)
(***************************************************************************)
EXTENDS Integers, Sequences, FiniteSets, TLC

\* ------------------------------------------------------------------ bounds
\* stimuli (inbound frames and user actions) in one run
MaxSteps == 4
\* setMessages updaters queued and not yet rendered
MaxPending == 3

\* ------------------------------------------------------------------ inputs
\* the text of a text_delta frame
Texts == { <<"a">>, <<"b">> }
\* tool_id of tool_start / tool_end frames
ToolIds == { "A", "B" }
\* name of a tool_start frame
ToolNames == { "calculator" }
\* message of an error frame
ErrorMessages == { "boom" }
\* what the user may type into the textarea
Inputs == { <<>>, <<"q">>, <<" ">> }
\* files the user may select: File.name, File.type (a MIME type), and the
\* base64 payload FileReader produces for its bytes
Files == { [name |-> "p.png", type |-> <<"image", "/", "png">>, b64 |-> "UE5H"],
           [name |-> "v.mp4", type |-> <<"video", "/", "mp4">>, b64 |-> "TVA0"] }

\* what crypto.randomUUID() may return at load
SessionIds == { "s1", "s2" }
\* data.type of a frame that no case of the switch handles
UnknownTypes == { "ping" }
\* e.data of a frame that is not JSON text
NotJSON == { "{" }

VARIABLES
  messages,        \* part_000: useState([]) transcript
  messagesApp,     \* frontend/src/App.jsx: useState([]) transcript
  pendingNewTurn,  \* part_000: useRef(false), the turn-boundary marker
  queue,           \* setMessages updaters queued since the last render
  input,           \* useState('')
  media,           \* useState([]) pending attachments
  isThinking,      \* useState(false) reasoning indicator
  isWaiting,       \* part_000: useState(false) waiting indicator
  error,           \* useState(null) error banner
  ws,              \* useState(null): "null" or "socket"
  readyState,      \* the socket: none, connecting, open, failed (CLOSED, its close
                   \* event still to fire), closing (close() called), closed
  sent,            \* frames the socket transmitted, in order
  reading,         \* files whose FileReader has not fired onload yet
  threw,           \* the handler that ran last ended with an uncaught exception
  refMessages,     \* history: part_000's reducer applied at each frame's arrival
  refMarker,       \* history: the marker of that atomic reducer
  steps,           \* stimuli so far
  mediaQueue,      \* setMedia updaters queued since the last render: the entries
  loaded,          \* history: files read since the last send, in completion order
  ignored,         \* history: a frame of unknown type has been delivered
  unmounted,       \* the view has been torn down (the effect's cleanup has run)
  sessionId,       \* SESSION_ID
  url              \* the URL the socket was constructed with

vars == << messages, messagesApp, pendingNewTurn, queue, input, media, isThinking,
           isWaiting, error, ws, readyState, sent, reading, threw, refMessages,
           refMarker, steps, mediaQueue, loaded, ignored, unmounted, sessionId, url >>

\* ------------------------------------------------------------------ helpers
Last(s) == s[Len(s)]

Front(s) == SubSeq(s, 1, Len(s) - 1)

RECURSIVE Concat(_)
\* the concatenation of a sequence of texts
Concat(ss) == IF ss = <<>> THEN <<>> ELSE Head(ss) \o Concat(Tail(ss))

RECURSIVE TrimStart(_)
TrimStart(s) == IF s # <<>> /\ Head(s) = " " THEN TrimStart(Tail(s)) ELSE s

RECURSIVE TrimEnd(_)
TrimEnd(s) == IF s # <<>> /\ Last(s) = " " THEN TrimEnd(Front(s)) ELSE s

\* String.prototype.trim
Trim(s) == TrimEnd(TrimStart(s))

\* FileReader.readAsDataURL: "data:<type>;base64,<payload>"
DataURL(file) == <<"data:">> \o file.type \o <<";base64", ",", file.b64>>

RECURSIVE Split(_, _)
\* String.prototype.split(sep): the pieces between the separators
Split(s, sep) ==
  IF \A i \in 1..Len(s) : s[i] # sep THEN << s >>
  ELSE LET k == CHOOSE i \in 1..Len(s) : s[i] = sep /\ \A j \in 1..(i - 1) : s[j] # sep
       IN  << SubSeq(s, 1, k - 1) >> \o Split(SubSeq(s, k + 1, Len(s)), sep)

\* file.type.startsWith('video/')
StartsWithVideo(type) == Len(type) >= 2 /\ type[1] = "video" /\ type[2] = "/"

\* the attachment reader.onload appends to media
MediaEntry(file) ==
  [ type       |-> IF StartsWithVideo(file.type) THEN "video" ELSE "image",
    media_type |-> file.type,
    data       |-> Split(DataURL(file), ",")[2],
    preview    |-> DataURL(file),
    name       |-> file.name ]

\* media.map(m => ({ type: m.type, preview: m.preview }))
DisplayMedia(ms) == [ i \in 1..Len(ms) |-> [type |-> ms[i].type, preview |-> ms[i].preview] ]

\* media.map(m => ({ type, media_type, data }))
FrameMedia(ms) ==
  [ i \in 1..Len(ms) |-> [type |-> ms[i].type, media_type |-> ms[i].media_type,
                          data |-> ms[i].data] ]

UserMessage(text, ms) == [role |-> "user", content |-> text, media |-> DisplayMedia(ms)]

MessageFrame(text, ms) == [type |-> "message", text |-> text, media |-> FrameMedia(ms)]

ClearFrame == [type |-> "clear"]

AssistantMessage(text, tools) == [role |-> "assistant", content |-> text, tools |-> tools]

NewTool(id, name) == [id |-> id, name |-> name, status |-> "running"]

\* lastMsg?.role === 'assistant'
LastIsAssistant(prev) == prev # <<>> /\ Last(prev).role = "assistant"

\* mutant: the status is flipped instead of set
MarkDone_Toggle(tools, id) ==
  [ i \in 1..Len(tools) |->
      IF tools[i].id = id
        THEN [tools[i] EXCEPT !.status = IF @ = "done" THEN "running" ELSE "done"]
        ELSE tools[i] ]

\* mutant: only the first ToolCall of the list is looked at
MarkDone_FirstOnly(tools, id) ==
  [ i \in 1..Len(tools) |-> IF i = 1 /\ tools[i].id = id
                              THEN [tools[i] EXCEPT !.status = "done"]
                              ELSE tools[i] ]

\* tools.map(t => t.id === tool_id ? { ...t, status: 'done' } : t)
MarkDone(tools, id) ==
  [ i \in 1..Len(tools) |-> IF tools[i].id = id THEN [tools[i] EXCEPT !.status = "done"]
                            ELSE tools[i] ]

\* mutant: the delta is put in front of the content
TextDeltaUpdater_Prepend(prev, marker, text) ==
  IF marker
    THEN [msgs |-> Append(prev, AssistantMessage(text, <<>>)), marker |-> FALSE]
  ELSE IF LastIsAssistant(prev)
    THEN [msgs |-> [prev EXCEPT ![Len(prev)].content = text \o @], marker |-> marker]
  ELSE [msgs |-> Append(prev, AssistantMessage(text, <<>>)), marker |-> marker]

\* mutant: the marker is not cleared when it is consumed
TextDeltaUpdater_KeepMarker(prev, marker, text) ==
  IF marker \/ ~ LastIsAssistant(prev)
    THEN [msgs |-> Append(prev, AssistantMessage(text, <<>>)), marker |-> marker]
    ELSE [msgs |-> [prev EXCEPT ![Len(prev)].content = @ \o text], marker |-> marker]

\* mutant: cleared keeps the transcript
ClearedUpdater_Keep(prev) == prev

\* mutant: the ToolCall is attached to the first message of the transcript
ToolStartUpdater_First(prev, id, name) ==
  IF LastIsAssistant(prev) /\ prev[1].role = "assistant"
    THEN [prev EXCEPT ![1].tools = Append(@, NewTool(id, name))]
  ELSE IF LastIsAssistant(prev)
    THEN [prev EXCEPT ![Len(prev)].tools = Append(@, NewTool(id, name))]
  ELSE Append(prev, AssistantMessage(<<>>, << NewTool(id, name) >>))

\* mutant: the ended ToolCall is taken off the list
ToolEndUpdater_Remove(prev, id) ==
  IF LastIsAssistant(prev)
    THEN [prev EXCEPT ![Len(prev)].tools = SelectSeq(@, LAMBDA t : t.id # id)]
    ELSE prev

\* ------------------------------------------------------- part_000 updaters
\* Each returns the next transcript and the marker the updater leaves.
TextDeltaUpdater(prev, marker, text) ==
  IF marker
    THEN [msgs |-> Append(prev, AssistantMessage(text, <<>>)), marker |-> FALSE]
  ELSE IF LastIsAssistant(prev)
    THEN [msgs |-> [prev EXCEPT ![Len(prev)].content = @ \o text], marker |-> marker]
  ELSE [msgs |-> Append(prev, AssistantMessage(text, <<>>)), marker |-> marker]

ToolStartUpdater(prev, id, name) ==
  IF LastIsAssistant(prev)
    THEN [prev EXCEPT ![Len(prev)].tools = Append(@, NewTool(id, name))]
    ELSE Append(prev, AssistantMessage(<<>>, << NewTool(id, name) >>))

ToolEndUpdater(prev, id) ==
  IF LastIsAssistant(prev)
    THEN [prev EXCEPT ![Len(prev)].tools = MarkDone(@, id)]
    ELSE prev

\* setMessages([]) of case 'cleared' (the same in both variants)
ClearedUpdater(prev) == <<>>

\* ------------------------------------------- frontend/src/App.jsx updaters
\* mutant: the delta replaces the content of the last assistant message
AppTextDeltaUpdater_Replace(prev, text) ==
  IF LastIsAssistant(prev)
    THEN [prev EXCEPT ![Len(prev)].content = text]
    ELSE Append(prev, AssistantMessage(text, <<>>))

AppTextDeltaUpdater(prev, text) ==
  IF LastIsAssistant(prev)
    THEN [prev EXCEPT ![Len(prev)].content = @ \o text]
    ELSE Append(prev, AssistantMessage(text, <<>>))

AppToolStartUpdater(prev, id, name) ==
  IF LastIsAssistant(prev)
    THEN [prev EXCEPT ![Len(prev)].tools = Append(@, NewTool(id, name))]
    ELSE prev

AppToolEndUpdater(prev, id) ==
  IF LastIsAssistant(prev)
    THEN [prev EXCEPT ![Len(prev)].tools = MarkDone(@, id)]
    ELSE prev

\* ------------------------------------------------------------ attachments
\* mutant: the entry is put in front of the pending attachments
AppendMedia_Prepend(prev, entry) == << entry >> \o prev

\* the updater of reader.onload: prev => [...prev, entry]
AppendMedia(prev, entry) == Append(prev, entry)

RECURSIVE FlushMedia(_, _)
\* React processing the update queue of the media hook in order
FlushMedia(q, prev) ==
  IF q = <<>> THEN prev ELSE FlushMedia(Tail(q), AppendMedia(prev, Head(q)))

\* `ws://localhost:8000/ws/${SESSION_ID}`
URL(id) == << "ws://localhost:8000/ws/", id >>

\* ----------------------------------------------------------- the update queue
\* A queued setMessages call: the frame (or user message) it closes over.
TextUpdate(text) == [kind |-> "text_delta", text |-> text]
ToolStartUpdate(id, name) == [kind |-> "tool_start", tool_id |-> id, name |-> name]
ToolEndUpdate(id) == [kind |-> "tool_end", tool_id |-> id]
ClearedUpdate == [kind |-> "cleared"]
UserUpdate(msg) == [kind |-> "user", msg |-> msg]

\* part_000: one queued update applied to (prev, marker)
ApplyUpdate(u, prev, marker) ==
  CASE u.kind = "text_delta" -> TextDeltaUpdater(prev, marker, u.text)
    [] u.kind = "tool_start" -> [msgs |-> ToolStartUpdater(prev, u.tool_id, u.name),
                                 marker |-> marker]
    [] u.kind = "tool_end"   -> [msgs |-> ToolEndUpdater(prev, u.tool_id), marker |-> marker]
    [] u.kind = "cleared"    -> [msgs |-> ClearedUpdater(prev), marker |-> marker]
    [] u.kind = "user"       -> [msgs |-> Append(prev, u.msg), marker |-> marker]

\* frontend/src/App.jsx: one queued update applied to prev
AppApplyUpdate(u, prev) ==
  CASE u.kind = "text_delta" -> AppTextDeltaUpdater(prev, u.text)
    [] u.kind = "tool_start" -> AppToolStartUpdater(prev, u.tool_id, u.name)
    [] u.kind = "tool_end"   -> AppToolEndUpdater(prev, u.tool_id)
    [] u.kind = "cleared"    -> ClearedUpdater(prev)
    [] u.kind = "user"       -> Append(prev, u.msg)

RECURSIVE Flush(_, _, _)
\* React processing the hook's update queue in order
Flush(q, prev, marker) ==
  IF q = <<>> THEN [msgs |-> prev, marker |-> marker]
  ELSE LET r == ApplyUpdate(Head(q), prev, marker)
       IN  Flush(Tail(q), r.msgs, r.marker)

RECURSIVE AppFlush(_, _)
AppFlush(q, prev) ==
  IF q = <<>> THEN prev ELSE AppFlush(Tail(q), AppApplyUpdate(Head(q), prev))

\* ------------------------------------------------------------------ initial
\* the module loaded with SESSION_ID = id and App constructed
Load(id) ==
  /\ messages = <<>>
  /\ messagesApp = <<>>
  /\ pendingNewTurn = FALSE
  /\ queue = <<>>
  /\ input = <<>>
  /\ media = <<>>
  /\ isThinking = FALSE
  /\ isWaiting = FALSE
  /\ error = "null"
  /\ ws = "null"
  /\ readyState = "none"
  /\ sent = <<>>
  /\ reading = {}
  /\ threw = FALSE
  /\ refMessages = <<>>
  /\ refMarker = FALSE
  /\ steps = 0
  /\ mediaQueue = <<>>
  /\ loaded = <<>>
  /\ ignored = FALSE
  /\ unmounted = FALSE
  /\ sessionId = id
  /\ url = <<>>

\* no handler reads SESSION_ID but the effect that opens the socket: one
\* identifier stands for all
Init == Load("s1")

\* any identifier crypto.randomUUID() may return
InitLife == \E id \in SessionIds : Load(id)

\* ------------------------------------------------------------------ actions
\* setMessages(u): queue the update; the atomic reducer applies it at once
Enqueue(u) ==
  /\ Len(queue) < MaxPending
  /\ queue' = Append(queue, u)
  /\ LET r == ApplyUpdate(u, refMessages, refMarker)
     IN  refMessages' = r.msgs /\ refMarker' = r.marker

\* a frame is delivered to socket.onmessage only on an open connection
Delivered ==
  /\ readyState = "open"
  /\ steps < MaxSteps
  /\ steps' = steps + 1
  /\ threw' = FALSE

\* React renders: the queued updaters run, in order
Render ==
  /\ ~ unmounted
  /\ queue # <<>> \/ mediaQueue # <<>>
  /\ LET r == Flush(queue, messages, pendingNewTurn)
     IN  messages' = r.msgs /\ pendingNewTurn' = r.marker
  /\ messagesApp' = AppFlush(queue, messagesApp)
  /\ queue' = <<>>
  /\ media' = FlushMedia(mediaQueue, media)
  /\ mediaQueue' = <<>>
  /\ UNCHANGED << input, isThinking, isWaiting, error, ws, readyState, sent,
                  reading, threw, refMessages, refMarker, steps, loaded, ignored,
                  unmounted, sessionId, url >>

\* useEffect(() => { const socket = new WebSocket(...); ...; setWs(socket) }, [])
Mount ==
  /\ ws = "null"
  /\ ws' = "socket"
  /\ readyState' = "connecting"
  /\ url' = URL(sessionId)
  /\ UNCHANGED << messages, messagesApp, pendingNewTurn, queue, input, media, isThinking,
                  isWaiting, error, sent, reading, threw, refMessages, refMarker, steps,
                  mediaQueue, loaded, ignored, unmounted, sessionId >>

\* the cleanup of the effect, run when the view is torn down: socket.close()
Unmount ==
  /\ ws = "socket"
  /\ ~ unmounted
  /\ steps < MaxSteps
  /\ steps' = steps + 1
  /\ unmounted' = TRUE
  /\ readyState' = IF readyState \in {"connecting", "open"} THEN "closing" ELSE readyState
  /\ threw' = FALSE
  /\ UNCHANGED << messages, messagesApp, pendingNewTurn, queue, input, media, isThinking,
                  isWaiting, error, ws, sent, reading, refMessages, refMarker, mediaQueue,
                  loaded, ignored, sessionId, url >>

\* socket.onopen
SocketOpen ==
  /\ readyState = "connecting"
  /\ readyState' = "open"
  /\ error' = "null"
  /\ UNCHANGED << messages, messagesApp, pendingNewTurn, queue, input, media, isThinking,
                  isWaiting, ws, sent, reading, threw, refMessages, refMarker, steps,
                  mediaQueue, loaded, ignored, unmounted, sessionId, url >>

\* socket.onerror: a failed connection is already CLOSED when the error event
\* fires; its close event follows
SocketError ==
  /\ readyState \in {"connecting", "open"}
  /\ readyState' = "failed"
  /\ error' = "Failed to connect to server"
  /\ UNCHANGED << messages, messagesApp, pendingNewTurn, queue, input, media, isThinking,
                  isWaiting, ws, sent, reading, threw, refMessages, refMarker, steps,
                  mediaQueue, loaded, ignored, unmounted, sessionId, url >>

\* mutant: onclose opens the connection again
SocketClose_Reconnect ==
  /\ readyState \in {"connecting", "open", "failed", "closing"}
  /\ readyState' = "connecting"
  /\ error' = IF unmounted THEN error ELSE "Connection lost. Please refresh."
  /\ UNCHANGED << messages, messagesApp, pendingNewTurn, queue, input, media, isThinking,
                  isWaiting, ws, sent, reading, threw, refMessages, refMarker, steps,
                  mediaQueue, loaded, ignored, unmounted, sessionId, url >>

\* socket.onclose; setError of a view that is torn down sets nothing
SocketClose ==
  /\ readyState \in {"connecting", "open", "failed", "closing"}
  /\ readyState' = "closed"
  /\ error' = IF unmounted THEN error ELSE "Connection lost. Please refresh."
  /\ UNCHANGED << messages, messagesApp, pendingNewTurn, queue, input, media, isThinking,
                  isWaiting, ws, sent, reading, threw, refMessages, refMarker, steps,
                  mediaQueue, loaded, ignored, unmounted, sessionId, url >>

\* mutant: the frame's status is ignored, the indicator is switched on
Thinking_AlwaysOn(status) ==
  /\ Delivered
  /\ isThinking' = TRUE
  /\ UNCHANGED << messages, messagesApp, pendingNewTurn, queue, input, media, isWaiting,
                  error, ws, readyState, sent, reading, refMessages, refMarker,
                  mediaQueue, loaded, ignored, unmounted, sessionId, url >>

\* case 'thinking'
Thinking(status) ==
  /\ Delivered
  /\ isThinking' = status
  /\ UNCHANGED << messages, messagesApp, pendingNewTurn, queue, input, media, isWaiting,
                  error, ws, readyState, sent, reading, refMessages, refMarker,
                  mediaQueue, loaded, ignored, unmounted, sessionId, url >>

\* case 'text_delta'
TextDelta(text) ==
  /\ Delivered
  /\ isWaiting' = FALSE
  /\ Enqueue(TextUpdate(text))
  /\ UNCHANGED << messages, messagesApp, pendingNewTurn, input, media, isThinking, error,
                  ws, readyState, sent, reading, mediaQueue, loaded, ignored, unmounted,
                  sessionId, url >>

\* case 'tool_start'
ToolStart(id, name) ==
  /\ Delivered
  /\ isWaiting' = FALSE
  /\ Enqueue(ToolStartUpdate(id, name))
  /\ UNCHANGED << messages, messagesApp, pendingNewTurn, input, media, isThinking, error,
                  ws, readyState, sent, reading, mediaQueue, loaded, ignored, unmounted,
                  sessionId, url >>

\* case 'tool_end'
ToolEnd(id) ==
  /\ Delivered
  /\ Enqueue(ToolEndUpdate(id))
  /\ UNCHANGED << messages, messagesApp, pendingNewTurn, input, media, isThinking,
                  isWaiting, error, ws, readyState, sent, reading, mediaQueue, loaded,
                  ignored, unmounted, sessionId, url >>

\* case 'new_turn' (part_000 only; frontend/src/App.jsx has no such case)
NewTurn ==
  /\ Delivered
  /\ pendingNewTurn' = TRUE
  /\ refMarker' = TRUE
  /\ UNCHANGED << messages, messagesApp, queue, input, media, isThinking, isWaiting, error,
                  ws, readyState, sent, reading, refMessages, mediaQueue, loaded, ignored,
                  unmounted, sessionId, url >>

\* case 'done'
Done ==
  /\ Delivered
  /\ isThinking' = FALSE
  /\ isWaiting' = FALSE
  /\ UNCHANGED << messages, messagesApp, pendingNewTurn, queue, input, media, error, ws,
                  readyState, sent, reading, refMessages, refMarker, mediaQueue, loaded,
                  ignored, unmounted, sessionId, url >>

\* mutant: the waiting indicator is left as it is
Error_KeepWaiting(message) ==
  /\ Delivered
  /\ error' = message
  /\ isThinking' = FALSE
  /\ UNCHANGED << messages, messagesApp, pendingNewTurn, queue, input, media, isWaiting, ws,
                  readyState, sent, reading, refMessages, refMarker, mediaQueue, loaded,
                  ignored, unmounted, sessionId, url >>

\* case 'error'
Error(message) ==
  /\ Delivered
  /\ error' = message
  /\ isThinking' = FALSE
  /\ isWaiting' = FALSE
  /\ UNCHANGED << messages, messagesApp, pendingNewTurn, queue, input, media, ws,
                  readyState, sent, reading, refMessages, refMarker, mediaQueue, loaded,
                  ignored, unmounted, sessionId, url >>

\* mutant: cleared resets the marker as well
Cleared_ResetsMarker ==
  /\ Delivered
  /\ Enqueue(ClearedUpdate)
  /\ pendingNewTurn' = FALSE
  /\ UNCHANGED << messages, messagesApp, input, media, isThinking,
                  isWaiting, error, ws, readyState, sent, reading, mediaQueue, loaded,
                  ignored, unmounted, sessionId, url >>

\* case 'cleared'
Cleared ==
  /\ Delivered
  /\ Enqueue(ClearedUpdate)
  /\ UNCHANGED << messages, messagesApp, pendingNewTurn, input, media, isThinking,
                  isWaiting, error, ws, readyState, sent, reading, mediaQueue, loaded,
                  ignored, unmounted, sessionId, url >>

\* handleServerMessage: the switch on data.type
HandleServerMessage ==
  \/ \E status \in BOOLEAN : Thinking(status)
  \/ \E text \in Texts : TextDelta(text)
  \/ \E id \in ToolIds, name \in ToolNames : ToolStart(id, name)
  \/ \E id \in ToolIds : ToolEnd(id)
  \/ NewTurn
  \/ Done
  \/ \E message \in ErrorMessages : Error(message)
  \/ Cleared

\* mutant: a default case that throws
Unhandled_Throws(type) ==
  /\ readyState = "open"
  /\ steps < MaxSteps
  /\ steps' = steps + 1
  /\ threw' = TRUE
  /\ ignored' = TRUE
  /\ UNCHANGED << messages, messagesApp, pendingNewTurn, queue, input, media, isThinking,
                  isWaiting, error, ws, readyState, sent, reading, refMessages, refMarker,
                  mediaQueue, loaded, unmounted, sessionId, url >>

\* handleServerMessage with a data.type of no case: the switch has no default
Unhandled(type) ==
  /\ Delivered
  /\ ignored' = TRUE
  /\ UNCHANGED << messages, messagesApp, pendingNewTurn, queue, input, media, isThinking,
                  isWaiting, error, ws, readyState, sent, reading, refMessages, refMarker,
                  mediaQueue, loaded, unmounted, sessionId, url >>

\* socket.onmessage with data that is not JSON text: JSON.parse throws
\* SyntaxError, nothing catches it, handleServerMessage does not run
Malformed(data) ==
  /\ readyState = "open"
  /\ steps < MaxSteps
  /\ steps' = steps + 1
  /\ threw' = TRUE
  /\ UNCHANGED << messages, messagesApp, pendingNewTurn, queue, input, media, isThinking,
                  isWaiting, error, ws, readyState, sent, reading, refMessages, refMarker,
                  mediaQueue, loaded, ignored, unmounted, sessionId, url >>

\* onChange of the textarea: setInput(e.target.value)
SetInput(text) ==
  /\ ~ unmounted
  /\ steps < MaxSteps
  /\ steps' = steps + 1
  /\ input # text
  /\ input' = text
  /\ threw' = FALSE
  /\ UNCHANGED << messages, messagesApp, pendingNewTurn, queue, media, isThinking,
                  isWaiting, error, ws, readyState, sent, reading, refMessages, refMarker,
                  mediaQueue, loaded, ignored, unmounted, sessionId, url >>

\* handleFileSelect: one FileReader per selected file
HandleFileSelect(files) ==
  /\ ~ unmounted
  /\ steps < MaxSteps
  /\ steps' = steps + 1
  /\ files # {}
  /\ files \cap reading = {}
  /\ reading' = reading \cup files
  /\ threw' = FALSE
  /\ UNCHANGED << messages, messagesApp, pendingNewTurn, queue, input, media, isThinking,
                  isWaiting, error, ws, readyState, sent, refMessages, refMarker,
                  mediaQueue, loaded, ignored, unmounted, sessionId, url >>

\* reader.onload of one file: setMedia(prev => [...prev, entry])
ReaderOnLoad(file) ==
  /\ ~ unmounted
  /\ file \in reading
  /\ Len(mediaQueue) < MaxPending
  /\ reading' = reading \ {file}
  /\ mediaQueue' = Append(mediaQueue, MediaEntry(file))
  /\ loaded' = Append(loaded, file)
  /\ UNCHANGED << messages, messagesApp, pendingNewTurn, queue, input, media, isThinking,
                  isWaiting, error, ws, readyState, sent, threw, refMessages, refMarker,
                  steps, ignored, unmounted, sessionId, url >>

\* mutant: the waiting indicator blocks sending too
CanSend_WaitingBlocks ==
  ~ ((Trim(input) = <<>> /\ Len(media) = 0) \/ ws = "null" \/ isThinking \/ isWaiting)

\* the guard of sendMessage: the early return is not taken
CanSend == ~ ((Trim(input) = <<>> /\ Len(media) = 0) \/ ws = "null" \/ isThinking)

\* sendMessage.  WebSocket.send throws InvalidStateError while the socket is
\* connecting (the statements after it do not run), transmits when it is open
\* and discards the data silently once it is closed.
SendMessage ==
  /\ ~ unmounted
  /\ steps < MaxSteps
  /\ steps' = steps + 1
  /\ CanSend
  /\ Enqueue(UserUpdate(UserMessage(input, media)))
  /\ IF readyState = "connecting"
       THEN /\ threw' = TRUE
            /\ UNCHANGED << sent, isWaiting, input, media, mediaQueue, loaded >>
       ELSE /\ threw' = FALSE
            /\ sent' = IF readyState = "open"
                         THEN Append(sent, MessageFrame(input, media))
                         ELSE sent
            /\ isWaiting' = TRUE
            /\ input' = <<>>
            /\ media' = <<>>
            /\ mediaQueue' = <<>>
            /\ loaded' = <<>>
  /\ UNCHANGED << messages, messagesApp, pendingNewTurn, isThinking, error, ws, readyState,
                  reading, ignored, unmounted, sessionId, url >>

\* sendMessage taking its early return
SendIgnored ==
  /\ ~ unmounted
  /\ steps < MaxSteps
  /\ steps' = steps + 1
  /\ ~ CanSend
  /\ threw' = FALSE
  /\ UNCHANGED << messages, messagesApp, pendingNewTurn, queue, input, media, isThinking,
                  isWaiting, error, ws, readyState, sent, reading, refMessages, refMarker,
                  mediaQueue, loaded, ignored, unmounted, sessionId, url >>

\* clearChat: ws?.send(JSON.stringify({ type: 'clear' })), in
\* frontend/src/App.jsx if (ws) { ws.send(...) }
ClearChat ==
  /\ ~ unmounted
  /\ steps < MaxSteps
  /\ steps' = steps + 1
  /\ threw' = (ws # "null" /\ readyState = "connecting")
  /\ sent' = IF ws # "null" /\ readyState = "open" THEN Append(sent, ClearFrame) ELSE sent
  /\ UNCHANGED << messages, messagesApp, pendingNewTurn, queue, input, media, isThinking,
                  isWaiting, error, ws, readyState, reading, refMessages, refMarker,
                  mediaQueue, loaded, ignored, unmounted, sessionId, url >>

\* the client whose user sends text only (no file is ever selected)
NextText ==
  \/ Mount
  \/ SocketOpen
  \/ SocketError
  \/ SocketClose
  \/ HandleServerMessage
  \/ Render
  \/ \E text \in Inputs : SetInput(text)
  \/ SendMessage

SpecText == Init /\ [][NextText]_vars

\* the text-only client with every frame the server may send, well formed or
\* not, and every use of the send and clear controls
NextProto ==
  \/ NextText
  \/ \E type \in UnknownTypes : Unhandled(type)
  \/ \E data \in NotJSON : Malformed(data)
  \/ SendIgnored
  \/ ClearChat

SpecProto == Init /\ [][NextProto]_vars

\* the text-only client over the life of the view, from any session identifier
NextLife ==
  \/ NextText
  \/ Unmount

SpecLife == InitLife /\ [][NextLife]_vars

\* the user composing and sending messages with attachments; the server silent
NextFiles ==
  \/ Mount
  \/ SocketOpen
  \/ SocketError
  \/ SocketClose
  \/ Render
  \/ \E text \in Inputs : SetInput(text)
  \/ SendMessage
  \/ SendIgnored
  \/ \E files \in SUBSET Files : HandleFileSelect(files)
  \/ \E file \in Files : ReaderOnLoad(file)

SpecFiles == Init /\ [][NextFiles]_vars

\* the client
Next ==
  \/ NextProto
  \/ Unmount
  \/ \E files \in SUBSET Files : HandleFileSelect(files)
  \/ \E file \in Files : ReaderOnLoad(file)

Spec == Init /\ [][Next]_vars

\* ------------------------------------------------------------------ claims
\* every queued update is of the given kind
AllKind(q, kind) == \A i \in 1..Len(q) : q[i].kind = kind

\* the texts of a queue of text_delta updates, in arrival order
QueueTexts(q) == [ i \in 1..Len(q) |-> q[i].text ]

\* post is pre with txt appended to its last (assistant) message, or, when pre
\* is empty or ends with a user message, pre plus one assistant message txt
TextRun(pre, post, txt) ==
  IF LastIsAssistant(pre)
    THEN /\ Len(post) = Len(pre)
         /\ Front(post) = Front(pre)
         /\ Last(post) = [Last(pre) EXCEPT !.content = Last(pre).content \o txt]
    ELSE post = Append(pre, AssistantMessage(txt, <<>>))

C1_Step ==
  (queue # <<>> /\ AllKind(queue, "text_delta") /\ Render) =>
     /\ ~ pendingNewTurn =>
          /\ TextRun(messages, messages', Concat(QueueTexts(queue)))
          /\ ~ pendingNewTurn'
     /\ TextRun(messagesApp, messagesApp', Concat(QueueTexts(queue)))

\* C1: a run of text_delta updates processed while the marker is clear adds no
\* message when the transcript ends with an assistant message, whose content
\* becomes its previous content followed by the deltas in arrival order;
\* otherwise it adds exactly one assistant message holding the deltas in order.
C1_DeltasConcatenate == [][C1_Step]_vars

C1_Witness ==
  /\ queue = <<>>
  /\ ~ pendingNewTurn
  /\ Len(messages) = 2
  /\ messages[1].role = "user"
  /\ messages[2] = AssistantMessage(<<"a", "b">>, <<>>)
  /\ messagesApp = messages

C2_Step ==
  /\ NewTurn => pendingNewTurn' /\ messages' = messages /\ queue' = queue
  /\ (queue # <<>> /\ pendingNewTurn /\ LastIsAssistant(messages)
        /\ AllKind(queue, "text_delta") /\ Render) =>
        /\ messages' = Append(messages, AssistantMessage(Concat(QueueTexts(queue)), <<>>))
        /\ ~ pendingNewTurn'

\* C2: with the transcript ending in an assistant message, new_turn followed
\* by n >= 1 text_delta updates adds exactly one message, an assistant message
\* with no tools holding the n deltas in order; the prior message is unchanged.
C2_NewTurnStartsOneMessage == [][C2_Step]_vars

C2_Witness ==
  /\ queue = <<>>
  /\ ~ pendingNewTurn
  /\ refMarker = pendingNewTurn
  /\ messages = << AssistantMessage(<<"a">>, <<>>), AssistantMessage(<<"b", "a">>, <<>>) >>
  /\ refMessages = messages

\* C3: every frame's effect is applied atomically and in arrival order: once
\* nothing is pending, the transcript and the marker are those of the reducer
\* applied frame by frame on arrival, so a text_delta that arrived before a
\* new_turn never starts a new message because of it.
C3_AtomicInArrivalOrder ==
  queue = <<>> => (messages = refMessages /\ pendingNewTurn = refMarker)

\* a ToolCall with this id is in the last message
InLastMessage(msgs, id) ==
  /\ LastIsAssistant(msgs)
  /\ \E j \in 1..Len(Last(msgs).tools) : Last(msgs).tools[j].id = id

\* post is pre with every ToolCall id of its last (assistant) message done
ToolEnded(pre, post, id) ==
  IF InLastMessage(pre, id)
    THEN /\ Len(post) = Len(pre)
         /\ Front(post) = Front(pre)
         /\ Last(post).role = "assistant"
         /\ Last(post).content = Last(pre).content
         /\ Len(Last(post).tools) = Len(Last(pre).tools)
         /\ \A j \in 1..Len(Last(pre).tools) :
              Last(post).tools[j] =
                IF Last(pre).tools[j].id = id
                  THEN [id |-> id, name |-> Last(pre).tools[j].name, status |-> "done"]
                  ELSE Last(pre).tools[j]
    ELSE post = pre

C4_Step ==
  \A id \in ToolIds :
    (queue \in { << ToolEndUpdate(id) >>, << ToolEndUpdate(id), ToolEndUpdate(id) >> } /\ Render) =>
       /\ ToolEnded(messages, messages', id)
       /\ ToolEnded(messagesApp, messagesApp', id)
       /\ ~ threw'

\* C4: tool_end{X} processed twice in a row leaves the transcript that
\* processing it once leaves, and with no ToolCall X in the last message
\* (empty transcript and user message included) it changes nothing; no error.
C4_ToolEndIdempotent == [][C4_Step]_vars

C4_Witness ==
  /\ queue = << ToolEndUpdate("A") >>
  /\ LastIsAssistant(messages)
  /\ Last(messages).tools = << [id |-> "A", name |-> "calculator", status |-> "done"] >>

C5_Step ==
  (queue # <<>> /\ Last(queue).kind = "cleared" /\ Render) =>
     (messages' = <<>> /\ messagesApp' = <<>>)

\* C5: once a cleared frame is processed the transcript is empty, whatever the
\* transcript, the indicators and the marker were.
C5_ClearedEmpties == [][C5_Step]_vars

C5_Witness ==
  /\ messages = <<>>
  /\ messagesApp = <<>>
  /\ queue = <<>>
  /\ sent # <<>>
  /\ isWaiting

DoneTool(id, name) == [id |-> id, name |-> name, status |-> "done"]

\* post is pre after tool_start a, tool_start b, tool_end a: the last message
\* is an assistant message whose tools end with a done, b running; appended to
\* the tools of pre's last message when that is an assistant message,
\* otherwise in one new assistant message with empty content
ToolPair(pre, post, a, na, b, nb) ==
  IF LastIsAssistant(pre)
    THEN LET n == Len(Last(pre).tools)
         IN  /\ Len(post) = Len(pre)
             /\ Front(post) = Front(pre)
             /\ Last(post).role = "assistant"
             /\ Last(post).content = Last(pre).content
             /\ Len(Last(post).tools) = n + 2
             /\ \A j \in 1..n : /\ Last(post).tools[j].id = Last(pre).tools[j].id
                                /\ Last(post).tools[j].name = Last(pre).tools[j].name
             /\ Last(post).tools[n + 1] = DoneTool(a, na)
             /\ Last(post).tools[n + 2] = NewTool(b, nb)
    ELSE post = Append(pre, AssistantMessage(<<>>, << DoneTool(a, na), NewTool(b, nb) >>))

\* the queue holds exactly tool_start a, tool_start b, tool_end a
IsToolTriple(q, a, na, b, nb) ==
  q = << ToolStartUpdate(a, na), ToolStartUpdate(b, nb), ToolEndUpdate(a) >>

\* the statement of C6 on the transcript of part_000
C6_Part000_Step ==
  \A a \in ToolIds, b \in ToolIds, na \in ToolNames, nb \in ToolNames :
    (a # b /\ IsToolTriple(queue, a, na, b, nb) /\ Render) =>
       ToolPair(messages, messages', a, na, b, nb)

\* the statement of C6 on the transcript of frontend/src/App.jsx
C6_App_Step ==
  \A a \in ToolIds, b \in ToolIds, na \in ToolNames, nb \in ToolNames :
    (a # b /\ IsToolTriple(queue, a, na, b, nb) /\ Render) =>
       ToolPair(messagesApp, messagesApp', a, na, b, nb)

\* the statement of C6 restricted to part_000, which holds
C6_Part000 == [][C6_Part000_Step]_vars

\* C6: from any transcript, tool_start{A}, tool_start{B}, tool_end{A} ends
\* with a last assistant message whose tools end with A done, B running: no
\* message added when the last message was an assistant message, otherwise
\* exactly one new assistant message with empty content holding both.
C6_ToolPairInOneMessage == [][C6_Part000_Step /\ C6_App_Step]_vars

\* what C7 says of a step of sendMessage past its guard
C7_Step ==
  SendMessage =>
    /\ Len(queue') = Len(queue) + 1
    /\ Front(queue') = queue
    /\ Last(queue').kind = "user"
    /\ LET m == Last(queue').msg
       IN  /\ m.role = "user"
           /\ m.content = input
           /\ Len(m.media) = Len(media)
           /\ \A i \in 1..Len(media) :
                m.media[i] = [type |-> media[i].type, preview |-> media[i].preview]
    /\ Len(sent') = Len(sent) + 1
    /\ Front(sent') = sent
    /\ LET f == Last(sent')
       IN  /\ f.type = "message"
           /\ f.text = input
           /\ Len(f.media) = Len(media)
           /\ \A i \in 1..Len(media) :
                f.media[i] = [type |-> media[i].type, media_type |-> media[i].media_type,
                              data |-> media[i].data]
    /\ input' = <<>>
    /\ media' = <<>>

\* C7: whenever sendMessage passes its guard it appends one user message
\* (content the input, one media entry per attachment in order), transmits
\* exactly one message frame with the same text and attachments, and leaves
\* the input and the pending attachments empty.
C7_SendAppendsAndTransmits == [][C7_Step]_vars

\* the statement of C7 restricted to an open socket, which holds
C7_WhenOpen == [][readyState = "open" => C7_Step]_vars

\* what C8 says of the inbound frames
C8_Inbound_Step ==
  /\ (\E text \in Texts : TextDelta(text)) => ~ isWaiting'
  /\ (\E id \in ToolIds, name \in ToolNames : ToolStart(id, name)) => ~ isWaiting'
  /\ Done => ~ isWaiting'
  /\ (\E message \in ErrorMessages : Error(message)) => ~ isWaiting'
  /\ ((\E status \in BOOLEAN : Thinking(status)) \/ (\E id \in ToolIds : ToolEnd(id))
        \/ NewTurn \/ Cleared \/ Render) => isWaiting' = isWaiting

\* C8: the waiting indicator becomes true when the user sends a message, is
\* false right after text_delta, tool_start, done and error, and is changed
\* by no other inbound frame.
C8_WaitingIndicator == [][(SendMessage => isWaiting') /\ C8_Inbound_Step]_vars

\* the statement of C8 without the send that throws, which holds
C8_Inbound == [][(SendMessage /\ ~ threw' => isWaiting') /\ C8_Inbound_Step]_vars

C9_Step ==
  /\ \A status \in BOOLEAN :
       Thinking(status) =>
         /\ isThinking' = status
         /\ UNCHANGED << messages, messagesApp, queue, pendingNewTurn >>
  /\ Done =>
       /\ ~ isThinking'
       /\ ~ isWaiting'
       /\ UNCHANGED << messages, messagesApp, queue, pendingNewTurn >>

\* C9: thinking{status} sets the reasoning indicator to status and done sets
\* the reasoning and waiting indicators to false; neither touches the
\* transcript (nor queues an update of it).
C9_ThinkingDoneFrame == [][C9_Step]_vars

\* thinking{true}, text_delta, done on an empty transcript
C9_Witness ==
  /\ steps = 3
  /\ sent = <<>>
  /\ input = <<>>
  /\ error = "null"
  /\ queue = <<>>
  /\ messages = << AssistantMessage(<<"a">>, <<>>) >>
  /\ messagesApp = messages
  /\ ~ isThinking
  /\ ~ isWaiting

\* some ToolCall with this id, in any message, is running
RunningAnywhere(msgs, id) ==
  \E i \in 1..Len(msgs) :
    /\ msgs[i].role = "assistant"
    /\ \E j \in 1..Len(msgs[i].tools) :
         msgs[i].tools[j].id = id /\ msgs[i].tools[j].status = "running"

\* some ToolCall with this id in the last message is running
RunningInLast(msgs, id) ==
  /\ LastIsAssistant(msgs)
  /\ \E j \in 1..Len(Last(msgs).tools) :
       Last(msgs).tools[j].id = id /\ Last(msgs).tools[j].status = "running"

\* C10 as claimed: once tool_end{id} is processed, no ToolCall with that id is
\* left running, whatever arrived between its tool_start and the tool_end.
\* Stated of the renders that leave the transcript of the frames applied in
\* arrival order, so that a violation owes nothing to a late-applied update.
C10_NoRunningAfterToolEnd ==
  [][\A id \in ToolIds :
       (queue # <<>> /\ Last(queue) = ToolEndUpdate(id) /\ Render
          /\ messages' = refMessages' /\ pendingNewTurn' = refMarker') =>
          /\ ~ RunningAnywhere(messages', id)
          /\ ~ RunningAnywhere(messagesApp', id)]_vars

C10_Step ==
  \A id \in ToolIds :
    /\ (queue # <<>> /\ Last(queue) = ToolEndUpdate(id) /\ Render) =>
          /\ ~ RunningInLast(messages', id)
          /\ ~ RunningInLast(messagesApp', id)
    /\ (queue = << ToolEndUpdate(id) >> /\ Render) =>
          /\ Len(messages') = Len(messages)
          /\ Front(messages') = Front(messages)
          /\ Len(messagesApp') = Len(messagesApp)
          /\ Front(messagesApp') = Front(messagesApp)

\* C10 amended: once tool_end{id} is processed, no ToolCall with that id in
\* the last message of the transcript is left running; tool_end changes no
\* message but the last, so a ToolCall of an earlier message stays running.
C10_DoneInLastMessage == [][C10_Step]_vars

\* tool_start A, a text_delta, tool_end A, all on one message
C10_Witness ==
  /\ queue = <<>>
  /\ messages = << AssistantMessage(<<"a">>, << DoneTool("A", "calculator") >>) >>
  /\ messagesApp = << AssistantMessage(<<"a">>, << DoneTool("A", "calculator") >>) >>

\* some queued update is of the given kind
HasKind(q, kind) == \E i \in 1..Len(q) : q[i].kind = kind

\* post is pre, or pre with its last message modified, or pre plus one message
LastOnly(pre, post) ==
  \/ post = pre
  \/ Len(post) = Len(pre) /\ Front(post) = Front(pre)
  \/ Len(post) = Len(pre) + 1 /\ Front(post) = pre

\* every message of pre but the last is in post, at its position and unchanged
EarlierKept(pre, post) ==
  /\ Len(post) >= Len(pre)
  /\ SubSeq(post, 1, Len(pre) - 1) = Front(pre)

C11_Step ==
  /\ (queue # <<>> /\ ~ HasKind(queue, "cleared") /\ Render) =>
        /\ EarlierKept(messages, messages')
        /\ EarlierKept(messagesApp, messagesApp')
  /\ (Len(queue) = 1 /\ ~ HasKind(queue, "cleared") /\ Render) =>
        /\ LastOnly(messages, messages')
        /\ LastOnly(messagesApp, messagesApp')
  /\ (steps' # steps) =>
        /\ messages' = messages
        /\ messagesApp' = messagesApp
        /\ queue' = queue \/ (Len(queue') = Len(queue) + 1 /\ Front(queue') = queue)
        /\ Cleared \/ LastOnly(refMessages, refMessages')

\* C11: every inbound frame but cleared, and sendMessage, leaves every message
\* but the last where it was and as it was: processing one of them modifies
\* the last message, appends one message or changes nothing (handlers only
\* queue at most one update; the transcript changes when updates are applied).
C11_OnlyLastModified == [][C11_Step]_vars

\* a user message, then text_delta and tool_start on the assistant message
C11_Witness ==
  /\ queue = <<>>
  /\ Len(messages) = 2
  /\ messages[1] = UserMessage(<<"q">>, <<>>)
  /\ messages[2] = AssistantMessage(<<"a">>, << NewTool("A", "calculator") >>)
  /\ messagesApp = messages

\* what the banner may show: null, or one message
BannerValues ==
  {"null", "Failed to connect to server", "Connection lost. Please refresh."}
    \cup ErrorMessages

C12_Step ==
  /\ \A message \in ErrorMessages :
       Error(message) =>
         /\ error' = message
         /\ ~ isThinking'
         /\ ~ isWaiting'
         /\ UNCHANGED << messages, messagesApp, queue, pendingNewTurn >>
  /\ SocketError => error' = "Failed to connect to server"
  /\ (SocketClose /\ ~ unmounted) => error' = "Connection lost. Please refresh."
  /\ error' \in BannerValues

\* C12: error{message} leaves the transcript as it is (a partly streamed
\* assistant message stays), sets the reasoning and waiting indicators to
\* false and the banner to that message; the banner is one slot, which after
\* every error, server-reported or of the connection, holds that error alone.
C12_ErrorFrame == [][C12_Step]_vars

\* an error frame arriving after the first delta of an answer
C12_Witness ==
  /\ queue = <<>>
  /\ messages = << AssistantMessage(<<"a">>, <<>>) >>
  /\ messagesApp = messages
  /\ error = "boom"
  /\ readyState = "open"
  /\ ~ isThinking
  /\ ~ isWaiting
  /\ sent = <<>>

C13_Step ==
  \A type \in UnknownTypes :
    Unhandled(type) =>
      /\ ~ threw'
      /\ UNCHANGED << messages, messagesApp, queue, pendingNewTurn, isThinking, isWaiting,
                      error, input, media, sent >>

\* C13: a frame whose type no case handles is ignored: the handler raises no
\* error and leaves the transcript (and the updates queued for it), the
\* marker, both indicators and the error banner as they were.
C13_UnknownIgnored == [][C13_Step]_vars

\* text_delta, thinking{true}, new_turn and a frame of unknown type
C13_Witness ==
  /\ ignored
  /\ ~ threw
  /\ steps = 4
  /\ isThinking
  /\ error = "null"
  /\ pendingNewTurn
  /\ queue = <<>>
  /\ messages = << AssistantMessage(<<"a">>, <<>>) >>
  /\ messagesApp = messages

\* the socket is neither connecting nor open
Over(state) == state \in {"failed", "closing", "closed"}

C14_Step ==
  /\ (readyState' = "connecting" /\ readyState # "connecting") => (Mount /\ ws = "null")
  /\ ws = "socket" => ws' = "socket"
  /\ sessionId' = sessionId
  /\ ws' = "socket" => url' = << "ws://localhost:8000/ws/", sessionId >>
  /\ SocketOpen => error' = "null"
  /\ (SocketError \/ (SocketClose /\ ~ unmounted)) => error' # "null"
  /\ Over(readyState) => Over(readyState')
  /\ Unmount => Over(readyState')
  /\ unmounted => (unmounted' /\ Over(readyState'))

\* C14: a socket is constructed only by the effect run at mount, once, with
\* the URL of the session identifier generated at load, which never changes;
\* onopen sets the banner to null, onerror and onclose set it to a message;
\* once the connection has failed or closed it is never connecting or open
\* again; unmounting closes it.
C14_OneConnection == [][C14_Step]_vars

\* a message sent on the connection of session s2, then the view unmounted
\* and its socket closed
C14_Witness ==
  /\ unmounted
  /\ readyState = "closed"
  /\ sessionId = "s2"
  /\ url = << "ws://localhost:8000/ws/", "s2" >>
  /\ Len(sent) = 1
  /\ error = "null"

\* the statement of C15 for a socket that is closed: the send is discarded
C15_WhenClosed ==
  [][((SendMessage \/ ClearChat) /\ ws = "socket" /\ Over(readyState)) =>
        (sent' = sent /\ ~ threw')]_vars

\* C15: sendMessage or clearChat run while the socket is not open (still
\* connecting, or failed or closed) transmits no frame and raises no error.
C15_SilentWhenNotOpen ==
  [][((SendMessage \/ ClearChat) /\ ws = "socket" /\ readyState # "open") =>
        (sent' = sent /\ ~ threw')]_vars

\* the statement of C16 without the exception: the state is kept, and frames
\* delivered afterwards are processed (the step that follows is any step)
C16_StateKept ==
  [][\A data \in NotJSON :
       Malformed(data) =>
         UNCHANGED << messages, messagesApp, queue, pendingNewTurn, isThinking, isWaiting,
                      error, readyState, ws, input, media, sent >>]_vars

\* C16: a frame that is not JSON text raises no uncaught exception in the
\* message handler and leaves the transcript, the marker and the indicators
\* as they were; the connection stays open for the frames that follow.
C16_MalformedHarmless ==
  [][\A data \in NotJSON :
       Malformed(data) =>
         /\ ~ threw'
         /\ UNCHANGED << messages, messagesApp, queue, pendingNewTurn, isThinking,
                         isWaiting, readyState >>]_vars

\* the attachments of a sequence of files
Entries(files) == [ i \in 1..Len(files) |-> MediaEntry(files[i]) ]

C17_Step ==
  /\ \A file \in Files :
       ReaderOnLoad(file) =>
         /\ mediaQueue' = Append(mediaQueue, MediaEntry(file))
         /\ media' = media
  /\ (mediaQueue # <<>> /\ Render) =>
       /\ Len(media') = Len(media) + Len(mediaQueue)
       /\ SubSeq(media', 1, Len(media)) = media
       /\ SubSeq(media', Len(media) + 1, Len(media')) = mediaQueue

\* once every completed read has been rendered, the pending attachments are
\* those of the files read since the list was last emptied, each once, in the
\* order in which their reads completed
C17_Rendered == mediaQueue = <<>> => media = Entries(loaded)

\* C17: each completed read adds exactly one entry for its file, and whatever
\* the order in which the reads of several files complete, the pending
\* attachments end up holding the entries that were pending before, then one
\* entry per file read, in order of completion, none lost and none twice.
C17_ReadsAppendInCompletionOrder == [][C17_Step]_vars /\ [] C17_Rendered

\* p.png selected and read; then p.png and v.mp4 selected together, the read
\* of v.mp4 completing first
C17_Witness ==
  /\ reading = {}
  /\ mediaQueue = <<>>
  /\ Len(media) = 3
  /\ media[1].name = "p.png" /\ media[1].type = "image" /\ media[1].data = << "UE5H" >>
  /\ media[2].name = "v.mp4" /\ media[2].type = "video" /\ media[2].data = << "TVA0" >>
  /\ media[3] = media[1]
  /\ steps = 2

\* a message frame has been transmitted: every file of loaded was read after
\* the sendMessage that transmitted the last one
HasSent == \E i \in 1..Len(sent) : sent[i].type = "message"

\* what C18 says of the message sent next: it carries the attachments of the
\* files read since the last message was sent
C18_NextCarries ==
  (SendMessage /\ ~ threw' /\ HasSent) =>
     /\ Last(queue').msg.media = DisplayMedia(Entries(loaded))
     /\ readyState = "open" => Last(sent').media = FrameMedia(Entries(loaded))

C18_Step ==
  /\ \A file \in Files :
       ReaderOnLoad(file) =>
         /\ UNCHANGED << sent, queue, messages, messagesApp >>
         /\ Last(mediaQueue') = MediaEntry(file)
  /\ (SendMessage /\ ~ threw') => (media' = <<>> /\ mediaQueue' = <<>>)
  /\ C18_NextCarries

\* the statement of C18 for a message sent once the reads that completed have
\* been rendered, which holds
C18_OnceRendered == [][mediaQueue = <<>> => C18_Step]_vars

\* C18: an attachment whose read completes after sendMessage has run changes
\* neither the frame nor the user message of that send, is appended to the
\* pending attachments that send emptied, and is carried by the message sent
\* next.
C18_LateReadInNextMessage == [][C18_Step]_vars

\* sendMessage is called: it returns early or goes on
SendCalled == SendMessage \/ SendIgnored

\* the cases in which C19 says sendMessage does nothing
Blocked == isThinking \/ (Trim(input) = <<>> /\ media = <<>>) \/ ws = "null"

C19_Step ==
  /\ (SendCalled /\ Blocked) =>
        /\ ~ threw'
        /\ UNCHANGED << messages, messagesApp, queue, input, media, mediaQueue, isWaiting,
                        sent >>
  /\ (SendCalled /\ ~ Blocked) =>
        /\ Len(queue') = Len(queue) + 1
        /\ Last(queue').kind = "user"

\* C19: sendMessage changes nothing and transmits nothing when the reasoning
\* indicator is true, when the input is blank and no attachment is pending,
\* or when there is no socket object; in every other case, the waiting
\* indicator true included, it goes on and queues the user message.
C19_SendGuard == [][C19_Step]_vars

\* a second message typed and sent while the waiting indicator is still true
C19_Witness ==
  /\ isWaiting
  /\ ~ isThinking
  /\ Len(sent) = 2
  /\ Len(queue) = 2
  /\ queue[2].kind = "user"
  /\ steps = 4

C20_Step ==
  /\ Cleared =>
       /\ Last(queue') = ClearedUpdate
       /\ UNCHANGED << pendingNewTurn, isThinking, isWaiting, error, input, media,
                       mediaQueue, sent >>
  /\ (queue # <<>> /\ AllKind(queue, "cleared") /\ Render) =>
       /\ pendingNewTurn' = pendingNewTurn
       /\ UNCHANGED << isThinking, isWaiting, error, input, media >>
  /\ \A text \in Texts :
       (pendingNewTurn /\ queue = << ClearedUpdate, TextUpdate(text) >> /\ Render) =>
          /\ messages' = << AssistantMessage(text, <<>>) >>
          /\ ~ pendingNewTurn'
  /\ ClearChat =>
       /\ sent' = sent \/ sent' = Append(sent, ClearFrame)
       /\ readyState = "open" => sent' = Append(sent, ClearFrame)
       /\ UNCHANGED << messages, messagesApp, queue, pendingNewTurn, isThinking, isWaiting,
                       error, input, media, mediaQueue >>

\* C20: cleared resets the transcript and nothing else: marker, indicators,
\* banner, input and pending attachments are as before, so a marker set by
\* new_turn before cleared is still set after it and is consumed by the next
\* text_delta; clearChat does nothing but transmit {type: "clear"}: the
\* transcript is emptied only when the cleared frame arrives.
C20_ClearedResetsTranscriptOnly == [][C20_Step]_vars

\* an answer streamed, clearChat, then new_turn and cleared delivered: the
\* marker is still set and the transcript not yet emptied
C20_Witness ==
  /\ sent = << ClearFrame >>
  /\ pendingNewTurn
  /\ queue = << ClearedUpdate >>
  /\ messages = << AssistantMessage(<<"a">>, <<>>) >>
  /\ refMessages = <<>>
  /\ refMarker

\* after is the message before, grown: a user message is the same; an
\* assistant message keeps every ToolCall at its place with its id and name,
\* and a ToolCall that was done is done
MessageGrown(before, after) ==
  IF before.role = "user"
    THEN after = before
    ELSE /\ after.role = "assistant"
         /\ Len(after.tools) >= Len(before.tools)
         /\ \A j \in 1..Len(before.tools) :
              /\ after.tools[j].id = before.tools[j].id
              /\ after.tools[j].name = before.tools[j].name
              /\ before.tools[j].status = "done" => after.tools[j].status = "done"

\* every message of pre is in post at its place, grown
ToolsMonotonic(pre, post) ==
  /\ Len(post) >= Len(pre)
  /\ \A i \in 1..Len(pre) : MessageGrown(pre[i], post[i])

\* every ToolCall is in an assistant message: a user message has the fields
\* role, content and media and no other
ToolsOnAssistant(msgs) ==
  \A i \in 1..Len(msgs) :
    msgs[i].role = "user" => DOMAIN msgs[i] = {"role", "content", "media"}

C21_Step ==
  /\ (queue # <<>> /\ ~ HasKind(queue, "cleared") /\ Render) =>
        /\ ToolsMonotonic(messages, messages')
        /\ ToolsMonotonic(messagesApp, messagesApp')
  /\ (steps' # steps /\ ~ Cleared) => ToolsMonotonic(refMessages, refMessages')
  /\ ToolsOnAssistant(messages') /\ ToolsOnAssistant(messagesApp')

\* C21: as long as no cleared frame is processed, a ToolCall that is done
\* stays done, no ToolCall leaves the tool list of its message (nor changes
\* its id or name), and a user message never gets tools nor changes.
C21_ToolsMonotonic == [][C21_Step]_vars

\* a text_delta, then tool_start A, tool_end A, tool_start B
C21_Witness ==
  /\ queue = <<>>
  /\ messages =
       << AssistantMessage(<<"a">>, << DoneTool("A", "calculator"), NewTool("B", "calculator") >>) >>
  /\ messagesApp = messages
  /\ steps = 4

RECURSIVE ToolStartsOnAssistant(_, _)
\* every tool_start of the queue is applied to a transcript (that of
\* frontend/src/App.jsx) whose last message is an assistant message
ToolStartsOnAssistant(q, prev) ==
  \/ q = <<>>
  \/ /\ Head(q).kind = "tool_start" => LastIsAssistant(prev)
     /\ ToolStartsOnAssistant(Tail(q), AppApplyUpdate(Head(q), prev))

C22_Step ==
  /\ (queue # <<>> /\ messagesApp = messages /\ ~ pendingNewTurn
        /\ ToolStartsOnAssistant(queue, messagesApp) /\ Render) =>
        messagesApp' = messages'
  /\ (steps' # steps) => (messages' = messages /\ messagesApp' = messagesApp)
  /\ (steps' # steps /\ ~ NewTurn) => pendingNewTurn' = pendingNewTurn

\* C22: the two variants start with the same (empty) transcript, and every
\* step keeps them equal as long as the marker is clear, which it is while no
\* new_turn has arrived, and every tool_start is applied to a transcript that
\* ends with an assistant message: user sends, text_delta, tool_start,
\* tool_end and cleared give the same transcript in both.
C22_VariantsAgree ==
  (messages = <<>> /\ messagesApp = <<>> /\ ~ pendingNewTurn) /\ [][C22_Step]_vars

\* text_delta, tool_start A, tool_end A, text_delta: the same in both variants
C22_Witness ==
  /\ queue = <<>>
  /\ steps = 4
  /\ ~ pendingNewTurn
  /\ ~ refMarker
  /\ messages = << AssistantMessage(<<"a", "b">>, << DoneTool("A", "calculator") >>) >>
  /\ messagesApp = messages

====
